---- MODULE Spec2Model ----
(***************************************************************************)
(* A model of polytracker's execution-trace core                           *)
(* (polytracker/include/polytracker/tracing.h): the TraceEvent variants,   *)
(* the per-thread TraceEventStack, and Trace with its two last-usage maps. *)
(*                                                                         *)
(* Events live in one heap, `events`; an event's address is its position   *)
(* in the heap and nullptr is 0.  A std::unordered_map is a function whose *)
(* DOMAIN is the set of keys present.                                      *)
(***************************************************************************)
EXTENDS Integers, Sequences, FiniteSets, TLC

\* ------------------------------------------------------------------ bounds
NumLabels == 2
MaxEvents == 3
MaxBlocks == 2
MaxIndex == 1
MaxEntryCount == 1

Threads == {1, 2}
Labels == 1..NumLabels
Fnames == {"f", "g"}
BBIndices == {0}

nullptr == 0

VARIABLES
  events,          \* the heap: every TraceEvent constructed so far
  numTraceEvents,  \* the process-wide counter
  eventStacks,     \* Trace::eventStacks : thread id -> TraceEventStack
  lastUsages,      \* Trace::lastUsages : label -> BasicBlockEntry*
  lastUsagesByBB,  \* Trace::lastUsagesByBB : BasicBlockEntry* -> set of labels
  pc,              \* per thread: the statement it is about to execute
  loc,             \* per thread: the locals of the call in progress
  usageHist,       \* history: per label, <<bb>> for the bb of its latest setLastUsage call
  pushes,          \* history: per thread, the number of push calls
  pops,            \* history: per thread, the number of pop calls that returned true
  lastOp,          \* history: the call of Trace or TraceEventStack recorded last
  cmp              \* the last comparison of two BasicBlockTrace values, <<>> before any

vars == <<events, numTraceEvents, eventStacks, lastUsages, lastUsagesByBB,
          pc, loc, usageHist, pushes, pops, lastOp, cmp>>

\* ------------------------------------------------------- BasicBlockTrace

\* The strings a fname can point to: a string object is an address, StringAt
\* gives its characters.  Objects 1 and 2 hold the same name.
StringAt == << <<97>>, <<97>>, <<98>>, <<97, 98>>, <<102>> >>

StringObjects == DOMAIN StringAt

\* the character at position i of a NUL-terminated string
CharAt(s, i) == IF i <= Len(s) THEN s[i] ELSE 0

RECURSIVE strcmpFrom(_, _, _)
strcmpFrom(s1, s2, i) ==
  LET c1 == CharAt(s1, i)
      c2 == CharAt(s2, i)
  IN IF c1 # c2 THEN (IF c1 < c2 THEN -1 ELSE 1)
     ELSE IF c1 = 0 THEN 0
     ELSE strcmpFrom(s1, s2, i + 1)

\* strcmp on two char pointers: negative, zero or positive
strcmp(p1, p2) == strcmpFrom(StringAt[p1], StringAt[p2], 1)

\* struct BasicBlockTrace
BasicBlockTraces ==
  [fname : StringObjects, index : 0..MaxIndex, entryCount : 0..MaxEntryCount]

\* operator== with a fault: the entry count is not compared
BasicBlockTrace_eq_ignoresCount(this, other) ==
  this.fname = other.fname /\ this.index = other.index

\* BasicBlockTrace::operator==: fname is compared as a pointer
BasicBlockTrace_eq(this, other) ==
  /\ this.fname = other.fname
  /\ this.index = other.index
  /\ this.entryCount = other.entryCount

\* operator< with a fault: the entry count is compared before the block index
BasicBlockTrace_lt_countFirst(this, rhs) ==
  LET fnameCmp == strcmp(this.fname, rhs.fname)
  IN IF fnameCmp = 0
     THEN IF this.entryCount = rhs.entryCount
          THEN this.index < rhs.index
          ELSE this.entryCount < rhs.entryCount
     ELSE fnameCmp < 0

\* BasicBlockTrace::operator<
BasicBlockTrace_lt(this, rhs) ==
  LET fnameCmp == strcmp(this.fname, rhs.fname)
  IN IF fnameCmp = 0
     THEN IF this.index = rhs.index
          THEN this.entryCount < rhs.entryCount
          ELSE this.index < rhs.index
     ELSE fnameCmp < 0

\* ------------------------------------------------------------ TraceEvent

\* TraceEvent::TraceEvent() is eventIndex(numTraceEvents++) on the plain
\* size_t counter: a read of the counter, then a write of the read value + 1.
ctor_read(counter) == counter

ctor_write(tmp) == tmp + 1

\* TraceEvent::TraceEvent() and the variants' constructors: previous starts
\* null, eventIndex is the counter's value read at construction.
TraceEvent(kind, fname, index, returningTo, counter) ==
  [kind |-> kind, previous |-> nullptr, eventIndex |-> counter,
   fname |-> fname, index |-> index, returningTo |-> returningTo]

BasicBlockEntry(fname, index, counter) ==
  TraceEvent("BasicBlockEntry", fname, index, nullptr, counter)

FunctionCall(fname, counter) ==
  TraceEvent("FunctionCall", fname, 0, nullptr, counter)

FunctionReturn(fname, returningTo, counter) ==
  TraceEvent("FunctionReturn", fname, 0, returningTo, counter)

\* dynamic_cast<const BasicBlockEntry*>(event) != nullptr
IsBasicBlockEntry(evs, event) == evs[event].kind = "BasicBlockEntry"

\* dynamic_cast<FunctionCall*>(event) != nullptr
IsFunctionCall(evs, event) == evs[event].kind = "FunctionCall"

RECURSIVE getCallerFrom(_, _)
getCallerFrom(evs, event) ==
  IF event = nullptr THEN nullptr
  ELSE IF IsBasicBlockEntry(evs, event) THEN event
  ELSE getCallerFrom(evs, evs[event].previous)

RECURSIVE getCallerStopAtCall(_, _)
getCallerStopAtCall(evs, event) ==
  IF event = nullptr THEN nullptr
  ELSE IF IsBasicBlockEntry(evs, event) THEN event
  ELSE IF IsFunctionCall(evs, event) THEN nullptr
  ELSE getCallerStopAtCall(evs, evs[event].previous)

\* getCaller with a fault: gives up at an intervening FunctionCall
getCaller_stopsAtCall(evs, c) == getCallerStopAtCall(evs, evs[c].previous)

\* FunctionCall::getCaller
getCaller(evs, c) == getCallerFrom(evs, evs[c].previous)

\* ------------------------------------------------------- TraceEventStack

\* TraceEventStack::TraceEventStack()
TraceEventStack == [head |-> nullptr, eventHistory |-> <<>>]

\* TraceEventStack::operator bool
operator_bool(stack) == stack.head # nullptr

\* TraceEventStack::empty
empty(stack) == stack.head # nullptr

\* TraceEventStack::peek
peek(stack) == stack.head

\* push with a fault: links the new event to the event pushed last, popped or not
push_linksToLastPushed(evs, stack, event) ==
  [events |-> [evs EXCEPT ![event].previous =
                 IF stack.eventHistory = <<>> THEN nullptr
                 ELSE stack.eventHistory[Len(stack.eventHistory)]],
   stack  |-> [head |-> event,
               eventHistory |-> Append(stack.eventHistory, event)]]

\* push with a fault: links the new event to the newest event of the heap,
\* whichever stack recorded it
push_linksToNewestEvent(evs, stack, event) ==
  [events |-> [evs EXCEPT ![event].previous = event - 1],
   stack  |-> [head |-> event,
               eventHistory |-> Append(stack.eventHistory, event)]]

\* TraceEventStack::push: the heap and the stack after push(event)
push(evs, stack, event) ==
  [events |-> [evs EXCEPT ![event].previous = stack.head],
   stack  |-> [head |-> event,
               eventHistory |-> Append(stack.eventHistory, event)]]

\* pop with a fault: also drops the popped event from eventHistory
pop_dropsHistory(evs, stack) ==
  IF stack.head # nullptr
  THEN [stack |-> [head |-> evs[stack.head].previous,
                   eventHistory |-> SelectSeq(stack.eventHistory,
                                              LAMBDA e : e # stack.head)],
        ret |-> TRUE]
  ELSE [stack |-> stack, ret |-> FALSE]

\* pop with a fault: moves the head two links back when it can
pop_skipsOne(evs, stack) ==
  IF stack.head # nullptr
  THEN [stack |-> [stack EXCEPT !.head =
                     IF evs[stack.head].previous # nullptr
                     THEN evs[evs[stack.head].previous].previous
                     ELSE nullptr],
        ret |-> TRUE]
  ELSE [stack |-> stack, ret |-> FALSE]

\* TraceEventStack::pop: the stack after pop() and the value returned
pop(evs, stack) ==
  IF stack.head # nullptr
  THEN [stack |-> [stack EXCEPT !.head = evs[stack.head].previous],
        ret |-> TRUE]
  ELSE [stack |-> stack, ret |-> FALSE]

\* ------------------------------------------------------------------ Trace

\* operator[] with a fault: inserting a key resets the values already stored
MapIndex_resetsOnInsert(m, k, default) ==
  IF k \in DOMAIN m THEN m ELSE [x \in DOMAIN m \cup {k} |-> default]

\* std::unordered_map::operator[]: the map with key k present
MapIndex(m, k, default) ==
  IF k \in DOMAIN m THEN m ELSE m @@ (k :> default)

\* Trace::getStack: the key looked up is std::this_thread::get_id(), whatever
\* the argument
getStackKey(self, thread) == self

\* Trace::getStack: the map after the call; the argument is not the key used
getStack(stacks, self, thread) ==
  MapIndex(stacks, getStackKey(self, thread), TraceEventStack)

\* Trace::currentStack (non-const): the map after the call
currentStack(stacks, self) == MapIndex(stacks, self, TraceEventStack)

\* Trace::currentStack() const: the map after the call: find() inserts nothing
currentStack_const(stacks, self) == stacks

\* Trace::currentStack() const and Trace::lastEvent
lastEvent(stacks, self) ==
  IF self \in DOMAIN stacks THEN peek(stacks[self]) ELSE nullptr

\* secondToLastEvent with a fault: returns the last event itself
secondToLastEvent_returnsLast(evs, stacks, self) == lastEvent(stacks, self)

\* Trace::secondToLastEvent
secondToLastEvent(evs, stacks, self) ==
  IF lastEvent(stacks, self) # nullptr
  THEN evs[lastEvent(stacks, self)].previous
  ELSE nullptr

RECURSIVE currentBBFrom(_, _)
currentBBFrom(evs, event) ==
  IF event = nullptr THEN nullptr
  ELSE IF IsBasicBlockEntry(evs, event) THEN event
  ELSE IF IsFunctionCall(evs, event) THEN nullptr
  ELSE currentBBFrom(evs, evs[event].previous)

\* currentBB with a fault: walks past FunctionCall events
currentBB_skipsCalls(evs, stacks, self) ==
  getCallerFrom(evs, lastEvent(stacks, self))

\* Trace::currentBB
currentBB(evs, stacks, self) == currentBBFrom(evs, lastEvent(stacks, self))

\* Trace::setLastUsage, statement by statement.
\* lastUsages.find(canonicalByte): the iterator, nullptr-like "end" when absent
slu_find(lu, canonicalByte) == canonicalByte \in DOMAIN lu

\* lastUsagesByBB[oldValue->second].erase(canonicalByte)
slu_erase(lu, byBB, canonicalByte) ==
  LET old == lu[canonicalByte]
      m == MapIndex(byBB, old, {})
  IN [m EXCEPT ![old] = @ \ {canonicalByte}]

\* lastUsages[canonicalByte] = bb
slu_assign(lu, canonicalByte, bb) ==
  [MapIndex(lu, canonicalByte, nullptr) EXCEPT ![canonicalByte] = bb]

\* lastUsagesByBB[bb].insert(canonicalByte)
slu_insert(byBB, canonicalByte, bb) ==
  [MapIndex(byBB, bb, {}) EXCEPT ![bb] = @ \cup {canonicalByte}]

\* setLastUsage with a fault: forgets to remove the label from its old block's set
setLastUsage_noErase(lu, byBB, canonicalByte, bb) ==
  [lastUsages |-> slu_assign(lu, canonicalByte, bb),
   lastUsagesByBB |-> slu_insert(byBB, canonicalByte, bb)]

\* setLastUsage with a fault: keeps the first block recorded for a label
setLastUsage_keepsFirst(lu, byBB, canonicalByte, bb) ==
  IF slu_find(lu, canonicalByte)
  THEN [lastUsages |-> lu, lastUsagesByBB |-> byBB]
  ELSE [lastUsages |-> slu_assign(lu, canonicalByte, bb),
        lastUsagesByBB |-> slu_insert(byBB, canonicalByte, bb)]

\* setLastUsage with a fault: the old block's set is cleaned after the insert
setLastUsage_eraseLast(lu, byBB, canonicalByte, bb) ==
  LET byBB1 == slu_insert(byBB, canonicalByte, bb)
  IN [lastUsages |-> slu_assign(lu, canonicalByte, bb),
      lastUsagesByBB |-> IF slu_find(lu, canonicalByte)
                         THEN slu_erase(lu, byBB1, canonicalByte)
                         ELSE byBB1]

\* setLastUsage with a fault: the old block's whole set is cleared
setLastUsage_clearsOldSet(lu, byBB, canonicalByte, bb) ==
  LET byBB1 == IF slu_find(lu, canonicalByte)
               THEN [MapIndex(byBB, lu[canonicalByte], {})
                       EXCEPT ![lu[canonicalByte]] = {}]
               ELSE byBB
  IN [lastUsages |-> slu_assign(lu, canonicalByte, bb),
      lastUsagesByBB |-> slu_insert(byBB1, canonicalByte, bb)]

\* Trace::setLastUsage as one call: both maps after it
setLastUsage(lu, byBB, canonicalByte, bb) ==
  LET byBB1 == IF slu_find(lu, canonicalByte)
               THEN slu_erase(lu, byBB, canonicalByte)
               ELSE byBB
  IN [lastUsages |-> slu_assign(lu, canonicalByte, bb),
      lastUsagesByBB |-> slu_insert(byBB1, canonicalByte, bb)]

\* Trace::getLastUsage
getLastUsage(lu, label) ==
  IF label \in DOMAIN lu THEN lu[label] ELSE nullptr

\* Trace::taints(bb)
taints(byBB, bb) ==
  IF bb \notin DOMAIN byBB THEN {} ELSE byBB[bb]

\* ------------------------------------------------------------ the machine

EmptyMap == [k \in {} |-> nullptr]

NoLocals == [label |-> 0, bb |-> nullptr, found |-> FALSE, tmp |-> 0,
             kind |-> "", fname |-> ""]

\* no call recorded yet
NoOp == [op |-> "none", thread |-> 0, arg |-> 0, before |-> nullptr,
         ret |-> nullptr, ok |-> FALSE, set |-> {}]

Init ==
  /\ events = <<>>
  /\ numTraceEvents = 0
  /\ eventStacks = EmptyMap
  /\ lastUsages = EmptyMap
  /\ lastUsagesByBB = EmptyMap
  /\ pc = [t \in Threads |-> "idle"]
  /\ loc = [t \in Threads |-> NoLocals]
  /\ usageHist = [l \in Labels |-> <<>>]
  /\ pushes = [t \in Threads |-> 0]
  /\ pops = [t \in Threads |-> 0]
  /\ lastOp = NoOp
  /\ cmp = <<>>

\* the BasicBlockEntry events constructed so far
BasicBlockEntries(evs) ==
  {e \in 1..Len(evs) : IsBasicBlockEntry(evs, e)}

\* the block references a caller can hold
BlockRefs == BasicBlockEntries(events) \cup {nullptr}

\* the block a return on thread self resumes into, as its caller passes it
ReturnTargets(self) ==
  {nullptr, getCallerFrom(events, lastEvent(eventStacks, self))}

\* currentStack()->emplace<T>(args...) on thread self, as one call
EmplaceEvent(self, ev) ==
  /\ LET stacks1 == currentStack(eventStacks, self)
         t == Len(events) + 1
         r == push(Append(events, ev), stacks1[self], t)
     IN /\ events' = r.events
        /\ numTraceEvents' = ctor_write(ctor_read(numTraceEvents))
        /\ eventStacks' = [stacks1 EXCEPT ![self] = r.stack]
        /\ pushes' = [pushes EXCEPT ![self] = @ + 1]
  /\ UNCHANGED <<cmp, lastUsages, lastUsagesByBB, pc, loc, usageHist, pops>>

Emplace(self, ev) ==
  /\ Len(events) < MaxEvents
  /\ EmplaceEvent(self, ev)
  /\ UNCHANGED lastOp

EmplaceBasicBlockEntry(self, names) ==
  \E f \in names, i \in BBIndices :
    Emplace(self, BasicBlockEntry(f, i, ctor_read(numTraceEvents)))

EmplaceFunctionCall(self, names) ==
  \E f \in names : Emplace(self, FunctionCall(f, ctor_read(numTraceEvents)))

EmplaceFunctionReturn(self, names) ==
  \E f \in names, r \in ReturnTargets(self) :
    Emplace(self, FunctionReturn(f, r, ctor_read(numTraceEvents)))

\* currentStack()->pop() on thread self
Pop(self) ==
  /\ LET stacks1 == currentStack(eventStacks, self)
         r == pop(events, stacks1[self])
     IN /\ eventStacks' = [stacks1 EXCEPT ![self] = r.stack]
        /\ pops' = [pops EXCEPT ![self] = IF r.ret THEN @ + 1 ELSE @]
  /\ UNCHANGED <<lastOp, cmp, events, numTraceEvents, lastUsages, lastUsagesByBB, pc, loc,
                 usageHist, pushes>>

\* getStack(thread) called on thread self
GetStack(self) ==
  /\ \E thread \in Threads :
       eventStacks' = getStack(eventStacks, self, thread)
  /\ UNCHANGED <<lastOp, cmp, events, numTraceEvents, lastUsages, lastUsagesByBB, pc, loc,
                 usageHist, pushes, pops>>

\* setLastUsage(label, bb) run to completion
UpdateLastUsage(label, bb) ==
  /\ LET r == setLastUsage(lastUsages, lastUsagesByBB, label, bb)
     IN /\ lastUsages' = r.lastUsages
        /\ lastUsagesByBB' = r.lastUsagesByBB
  /\ usageHist' = [usageHist EXCEPT ![label] = <<bb>>]
  /\ UNCHANGED <<cmp, events, numTraceEvents, eventStacks, pc, loc, pushes, pops>>

DoSetLastUsage(label, bb) ==
  /\ UpdateLastUsage(label, bb)
  /\ UNCHANGED lastOp

SetLastUsage(self) ==
  \E label \in Labels, bb \in BlockRefs : DoSetLastUsage(label, bb)

\* "label L was just consumed in the current block"
ConsumeLabel(self) ==
  \E label \in Labels :
    DoSetLastUsage(label, currentBB(events, eventStacks, self))

\* The event stacks: every thread records events and pops on its own stack.
Next ==
  \E self \in Threads :
    \/ EmplaceBasicBlockEntry(self, Fnames)
    \/ EmplaceFunctionCall(self, Fnames)
    \/ EmplaceFunctionReturn(self, Fnames)
    \/ Pop(self)
    \/ GetStack(self)

Spec == Init /\ [][Next]_vars

\* The last-usage maps, used from one thread: blocks are entered, calls and
\* returns recorded, and setLastUsage is called with any block reference.
UsageThreads == {1}
UsageFnames == {"f"}

NextUsage ==
  \E self \in UsageThreads :
    \/ EmplaceBasicBlockEntry(self, UsageFnames)
    \/ EmplaceFunctionCall(self, UsageFnames)
    \/ EmplaceFunctionReturn(self, UsageFnames)
    \/ SetLastUsage(self)

SpecUsage == Init /\ [][NextUsage]_vars

\* Label consumption as the taint layer reports it: setLastUsage(L, currentBB())
\* interleaved with the events of the consuming thread.
NextConsume ==
  \E self \in UsageThreads :
    \/ EmplaceBasicBlockEntry(self, UsageFnames)
    \/ EmplaceFunctionCall(self, UsageFnames)
    \/ EmplaceFunctionReturn(self, UsageFnames)
    \/ Pop(self)
    \/ ConsumeLabel(self)

SpecConsume == Init /\ [][NextConsume]_vars

\* Threads running concurrently, one statement at a time: nothing in Trace or
\* in the TraceEvent constructor takes a lock or uses an atomic.
ConstructionsInProgress == Cardinality({t \in Threads : pc[t] = "ctor_write"})

\* new T(...): TraceEvent() reads numTraceEvents
CtorRead(self) ==
  /\ pc[self] = "idle"
  /\ Len(events) + ConstructionsInProgress < MaxEvents
  /\ \E kind \in {"BasicBlockEntry", "FunctionCall"}, f \in UsageFnames :
       loc' = [loc EXCEPT ![self] = [NoLocals EXCEPT
                 !.tmp = ctor_read(numTraceEvents), !.kind = kind, !.fname = f]]
  /\ pc' = [pc EXCEPT ![self] = "ctor_write"]
  /\ UNCHANGED <<lastOp, cmp, events, numTraceEvents, eventStacks, lastUsages,
                 lastUsagesByBB, usageHist, pushes, pops>>

\* TraceEvent() writes the counter back; the event is then pushed on the
\* constructing thread's own stack
CtorWrite(self) ==
  /\ pc[self] = "ctor_write"
  /\ LET stacks1 == currentStack(eventStacks, self)
         t == Len(events) + 1
         ev == TraceEvent(loc[self].kind, loc[self].fname, 0, nullptr,
                          loc[self].tmp)
         r == push(Append(events, ev), stacks1[self], t)
     IN /\ events' = r.events
        /\ numTraceEvents' = ctor_write(loc[self].tmp)
        /\ eventStacks' = [stacks1 EXCEPT ![self] = r.stack]
        /\ pushes' = [pushes EXCEPT ![self] = @ + 1]
  /\ pc' = [pc EXCEPT ![self] = "idle"]
  /\ loc' = [loc EXCEPT ![self] = NoLocals]
  /\ UNCHANGED <<lastOp, cmp, lastUsages, lastUsagesByBB, usageHist, pops>>

\* setLastUsage line 222: oldValue = lastUsages.find(canonicalByte)
SluFind(self) ==
  /\ pc[self] = "idle"
  /\ \E label \in Labels, bb \in BlockRefs :
       /\ loc' = [loc EXCEPT ![self] = [NoLocals EXCEPT
                    !.label = label, !.bb = bb,
                    !.found = slu_find(lastUsages, label)]]
       /\ pc' = [pc EXCEPT ![self] =
                   IF slu_find(lastUsages, label) THEN "slu_erase"
                   ELSE "slu_assign"]
  /\ UNCHANGED <<lastOp, cmp, events, numTraceEvents, eventStacks, lastUsages,
                 lastUsagesByBB, usageHist, pushes, pops>>

\* setLastUsage line 226
SluErase(self) ==
  /\ pc[self] = "slu_erase"
  /\ lastUsagesByBB' = slu_erase(lastUsages, lastUsagesByBB, loc[self].label)
  /\ pc' = [pc EXCEPT ![self] = "slu_assign"]
  /\ UNCHANGED <<lastOp, cmp, events, numTraceEvents, eventStacks, lastUsages, loc,
                 usageHist, pushes, pops>>

\* setLastUsage line 228
SluAssign(self) ==
  /\ pc[self] = "slu_assign"
  /\ lastUsages' = slu_assign(lastUsages, loc[self].label, loc[self].bb)
  /\ pc' = [pc EXCEPT ![self] = "slu_insert"]
  /\ UNCHANGED <<lastOp, cmp, events, numTraceEvents, eventStacks, lastUsagesByBB, loc,
                 usageHist, pushes, pops>>

\* setLastUsage line 229, and the return
SluInsert(self) ==
  /\ pc[self] = "slu_insert"
  /\ lastUsagesByBB' = slu_insert(lastUsagesByBB, loc[self].label, loc[self].bb)
  /\ usageHist' = [usageHist EXCEPT ![loc[self].label] = <<loc[self].bb>>]
  /\ pc' = [pc EXCEPT ![self] = "idle"]
  /\ loc' = [loc EXCEPT ![self] = NoLocals]
  /\ UNCHANGED <<lastOp, cmp, events, numTraceEvents, eventStacks, lastUsages, pushes, pops>>

\* a block entry recorded as one step, while setLastUsage calls are in progress
EnterBlock(self) ==
  /\ Len(events) < MaxBlocks
  /\ EmplaceBasicBlockEntry(self, UsageFnames)

\* Threads constructing events concurrently.
NextCtor ==
  \E self \in Threads :
    \/ CtorRead(self)
    \/ CtorWrite(self)

SpecCtor == Init /\ [][NextCtor]_vars

\* Threads calling setLastUsage concurrently; a reader may run between any
\* two steps, so it can observe every reachable state.
NextConc ==
  \/ \E self \in UsageThreads : EnterBlock(self)
  \/ \E self \in Threads :
       \/ SluFind(self)
       \/ SluErase(self)
       \/ SluAssign(self)
       \/ SluInsert(self)

SpecConc == Init /\ [][NextConc]_vars

\* Calls whose arguments and results are recorded in lastOp.

\* getStack(thread) called on thread self
GetStackCall(self) ==
  /\ \E thread \in Threads :
       LET stacks1 == getStack(eventStacks, self, thread)
       IN /\ eventStacks' = stacks1
          /\ lastOp' = [NoOp EXCEPT
               !.op = "getStack", !.thread = self, !.arg = thread,
               !.ret = getStackKey(self, thread),
               !.ok = \A k \in DOMAIN eventStacks : stacks1[k] = eventStacks[k],
               !.set = DOMAIN stacks1 \ DOMAIN eventStacks]
  /\ UNCHANGED <<events, numTraceEvents, lastUsages, lastUsagesByBB, pc, loc,
                 usageHist, pushes, pops, cmp>>

\* currentStack() called on thread self: the key is the calling thread
CurrentStackCall(self) ==
  /\ LET stacks1 == currentStack(eventStacks, self)
     IN /\ eventStacks' = stacks1
        /\ lastOp' = [NoOp EXCEPT
             !.op = "currentStack", !.thread = self, !.arg = self,
             !.ret = self,
             !.ok = \A k \in DOMAIN eventStacks : stacks1[k] = eventStacks[k],
             !.set = DOMAIN stacks1 \ DOMAIN eventStacks]
  /\ UNCHANGED <<events, numTraceEvents, lastUsages, lastUsagesByBB, pc, loc,
                 usageHist, pushes, pops, cmp>>

\* currentStack()->pop() on thread self, its result recorded
PopCall(self) ==
  /\ LET stacks1 == currentStack(eventStacks, self)
         r == pop(events, stacks1[self])
     IN /\ eventStacks' = [stacks1 EXCEPT ![self] = r.stack]
        /\ pops' = [pops EXCEPT ![self] = IF r.ret THEN @ + 1 ELSE @]
        /\ lastOp' = [NoOp EXCEPT
             !.op = "pop", !.thread = self,
             !.before = peek(stacks1[self]),
             !.ret = peek(r.stack),
             !.ok = r.ret]
  /\ UNCHANGED <<events, numTraceEvents, lastUsages, lastUsagesByBB, pc, loc,
                 usageHist, pushes, cmp>>

\* the events thread self may record next
NewEvents(self, names) ==
  {BasicBlockEntry(f, i, ctor_read(numTraceEvents)) :
     f \in names, i \in BBIndices}
  \cup {FunctionCall(f, ctor_read(numTraceEvents)) : f \in names}
  \cup {FunctionReturn(f, r, ctor_read(numTraceEvents)) :
          f \in names, r \in ReturnTargets(self)}

\* currentStack()->emplace<T>(args...) on thread self, its result recorded
EmplaceCall(self, bound) ==
  /\ Len(events) < bound
  /\ \E ev \in NewEvents(self, UsageFnames) : EmplaceEvent(self, ev)
  /\ lastOp' = [NoOp EXCEPT !.op = "emplace", !.thread = self,
                            !.before = lastEvent(eventStacks, self),
                            !.ret = Len(events) + 1]

\* setLastUsage(label, bb) called on thread self, recorded
SetLastUsageCall(self) ==
  \E label \in Labels, bb \in BlockRefs :
    /\ UpdateLastUsage(label, bb)
    /\ lastOp' = [NoOp EXCEPT !.op = "setLastUsage", !.thread = self]

\* the const queries of Trace, called on thread self
QueryStack(self) ==
  /\ eventStacks' = currentStack_const(eventStacks, self)
  /\ \/ lastOp' = [NoOp EXCEPT !.op = "lastEvent", !.thread = self,
                               !.ret = lastEvent(eventStacks, self)]
     \/ lastOp' = [NoOp EXCEPT !.op = "secondToLastEvent", !.thread = self,
                               !.ret = secondToLastEvent(events, eventStacks, self)]
     \/ lastOp' = [NoOp EXCEPT !.op = "currentBB", !.thread = self,
                               !.ret = currentBB(events, eventStacks, self)]
  /\ UNCHANGED <<events, numTraceEvents, lastUsages, lastUsagesByBB, pc, loc,
                 usageHist, pushes, pops, cmp>>

QueryUsage(self) ==
  /\ \/ \E label \in Labels :
          lastOp' = [NoOp EXCEPT !.op = "getLastUsage", !.thread = self,
                                 !.arg = label,
                                 !.ret = getLastUsage(lastUsages, label)]
     \/ \E bb \in BlockRefs :
          lastOp' = [NoOp EXCEPT !.op = "taints", !.thread = self,
                                 !.arg = bb,
                                 !.set = taints(lastUsagesByBB, bb)]
  /\ UNCHANGED <<events, numTraceEvents, eventStacks, lastUsages,
                 lastUsagesByBB, pc, loc, usageHist, pushes, pops, cmp>>

\* Lookups, pushes and pops with their results, on two threads' stacks.
NextCalls ==
  \E self \in Threads :
    \/ EmplaceCall(self, MaxEvents)
    \/ PopCall(self)
    \/ GetStackCall(self)
    \/ CurrentStackCall(self)

SpecCalls == Init /\ [][NextCalls]_vars

\* The const queries while thread 1 records events and label usages: the stack
\* queries are called by every thread, also one that has no stack.
NextQuery ==
  \/ \E self \in UsageThreads :
       \/ EmplaceCall(self, MaxBlocks)
       \/ PopCall(self)
       \/ SetLastUsageCall(self)
       \/ QueryUsage(self)
  \/ \E self \in Threads : QueryStack(self)

SpecQuery == Init /\ [][NextQuery]_vars

\* Comparisons of BasicBlockTrace values.
Compare ==
  /\ \E a \in BasicBlockTraces, b \in BasicBlockTraces :
       cmp' = << [a |-> a, b |-> b,
                  lt |-> BasicBlockTrace_lt(a, b),
                  gt |-> BasicBlockTrace_lt(b, a),
                  eq |-> BasicBlockTrace_eq(a, b)] >>
  /\ UNCHANGED <<events, numTraceEvents, eventStacks, lastUsages,
                 lastUsagesByBB, pc, loc, usageHist, pushes, pops, lastOp>>

NextOrder == Compare

SpecOrder == Init /\ [][NextOrder]_vars

\* ------------------------------------------------------ stated properties

\* the events met walking previous links from event, nearest first
RECURSIVE Chain(_, _)
Chain(evs, event) ==
  IF event = nullptr THEN <<>>
  ELSE <<event>> \o Chain(evs, evs[event].previous)

IsPrefix(s, t) == Len(s) <= Len(t) /\ SubSeq(t, 1, Len(s)) = s

\* the first event of a chain whose kind is in kinds, 0 when there is none
FirstOfKind(evs, chain, kinds) ==
  LET hits == {i \in 1..Len(chain) : evs[chain[i]].kind \in kinds}
  IN IF hits = {} THEN 0
     ELSE chain[CHOOSE i \in hits : \A j \in hits : i <= j]

HistoryKinds(self) ==
  IF self \in DOMAIN eventStacks
  THEN [i \in 1..Len(eventStacks[self].eventHistory) |->
          events[eventStacks[self].eventHistory[i]].kind]
  ELSE <<>>

HistoryFnames(self) ==
  IF self \in DOMAIN eventStacks
  THEN [i \in 1..Len(eventStacks[self].eventHistory) |->
          events[eventStacks[self].eventHistory[i]].fname]
  ELSE <<>>

\* C3: immediately after a push (emplace constructs and pushes) of event e on
\* a thread's stack, peek() is e and e.previous is what peek() returned just
\* before the push (nullptr when the stack had no head or did not exist),
\* also when pops preceded the push.
C3_PushLinksToPriorHead ==
  [][\A t \in Threads :
       pushes'[t] = pushes[t] + 1 =>
         LET e == Len(events) + 1
         IN /\ Len(events') = e
            /\ peek(eventStacks'[t]) = e
            /\ events'[e].previous = lastEvent(eventStacks, t)]_vars

\* C3 witness: a push that followed a pop: the head is the event pushed last
\* and its previous is not the event pushed just before it.
C3_Witness ==
  \E t \in DOMAIN eventStacks :
    LET h == eventStacks[t].eventHistory
    IN /\ pops[t] > 0
       /\ Len(h) >= 2
       /\ peek(eventStacks[t]) = h[Len(h)]
       /\ events[h[Len(h)]].previous # h[Len(h) - 1]

\* C4: pop() moves the head to the old head's previous and removes nothing
\* from eventHistory: eventHistory only grows by appending, its length is the
\* number of pushes, and every event ever pushed stays in it.
C4_HistoryStep ==
  \A t \in DOMAIN eventStacks :
    /\ t \in DOMAIN eventStacks'
    /\ IsPrefix(eventStacks[t].eventHistory, eventStacks'[t].eventHistory)
    /\ pops'[t] = pops[t] + 1 =>
         /\ peek(eventStacks'[t]) = events[peek(eventStacks[t])].previous
         /\ eventStacks'[t].eventHistory = eventStacks[t].eventHistory

C4_HistoryLength ==
  \A t \in Threads :
    /\ t \in DOMAIN eventStacks =>
         Len(eventStacks[t].eventHistory) = pushes[t]
    /\ t \notin DOMAIN eventStacks => pushes[t] = 0

C4_PopKeepsHistory == [](C4_HistoryLength) /\ [][C4_HistoryStep]_vars

\* C4 witness: every event of a stack has been popped and all are still in
\* its eventHistory.
C4_Witness ==
  \E t \in DOMAIN eventStacks :
    /\ pops[t] >= 2
    /\ peek(eventStacks[t]) = nullptr
    /\ Len(eventStacks[t].eventHistory) >= 2

\* C5: empty() is true exactly when the stack has no head (peek() is none),
\* the boolean conversion is true exactly when a head is set, so the two
\* always give opposite answers.
C5_EmptyIffNoHead ==
  \A t \in DOMAIN eventStacks :
    /\ empty(eventStacks[t]) <=> (peek(eventStacks[t]) = nullptr)
    /\ operator_bool(eventStacks[t]) <=> (peek(eventStacks[t]) # nullptr)
    /\ empty(eventStacks[t]) # operator_bool(eventStacks[t])

\* C6: currentBB() is none when, walking back from the head, a FunctionCall
\* is met before any BasicBlockEntry or the chain ends, and otherwise the
\* nearest preceding BasicBlockEntry, FunctionReturn events being skipped.
\* Example: BlockEntry(f,0) gives that entry; then Call(g) gives none; then
\* BlockEntry(g,0) gives the new entry.
C6_CurrentBB ==
  \A t \in Threads :
    LET chain == Chain(events, lastEvent(eventStacks, t))
        stop == FirstOfKind(events, chain, {"BasicBlockEntry", "FunctionCall"})
        bb == currentBB(events, eventStacks, t)
    IN /\ (stop = 0 \/ events[stop].kind = "FunctionCall") => bb = nullptr
       /\ (stop # 0 /\ events[stop].kind = "BasicBlockEntry") => bb = stop
       /\ (pops[t] = 0 /\ HistoryKinds(t) = <<"BasicBlockEntry">>)
            => bb = eventStacks[t].eventHistory[1]
       /\ (pops[t] = 0 /\ HistoryKinds(t) = <<"BasicBlockEntry", "FunctionCall">>)
            => bb = nullptr
       /\ (pops[t] = 0 /\ HistoryKinds(t) =
             <<"BasicBlockEntry", "FunctionCall", "BasicBlockEntry">>)
            => bb = eventStacks[t].eventHistory[3]

\* C6 witness: the example's last state, BlockEntry(f,0), Call(g),
\* BlockEntry(g,0) on one thread, where currentBB() is the new entry.
C6_Witness ==
  \E t \in Threads :
    /\ pops[t] = 0
    /\ HistoryKinds(t) = <<"BasicBlockEntry", "FunctionCall", "BasicBlockEntry">>
    /\ HistoryFnames(t) = <<"f", "g", "g">>
    /\ currentBB(events, eventStacks, t) = eventStacks[t].eventHistory[3]

\* C7: for every pushed FunctionCall c, getCaller() is the first
\* BasicBlockEntry met walking c.previous links backward, passing over
\* FunctionCall and FunctionReturn events, and none if there is none, in
\* particular when c is the first event on its thread.
C7_GetCaller ==
  \A c \in 1..Len(events) :
    events[c].kind = "FunctionCall" =>
      /\ getCaller(events, c) =
           FirstOfKind(events, Chain(events, events[c].previous),
                       {"BasicBlockEntry"})
      /\ events[c].previous = nullptr => getCaller(events, c) = nullptr

\* C7 witness: a call whose caller block lies behind another call.
C7_Witness ==
  \E c \in 1..Len(events) :
    /\ events[c].kind = "FunctionCall"
    /\ events[c].previous # nullptr
    /\ events[events[c].previous].kind = "FunctionCall"
    /\ getCaller(events, c) # nullptr
    /\ events[getCaller(events, c)].kind = "BasicBlockEntry"

\* every block reference that is a key of lastUsagesByBB or that a caller holds
KnownBlocks == BlockRefs \cup DOMAIN lastUsagesByBB

\* C1: after any sequence of setLastUsage calls made one at a time, the two
\* maps are exact inverses: label L is in taints(bb) if and only if
\* lastUsages holds the entry L -> bb; so no label is in the sets of two
\* different blocks.
C1_MapsAreInverses ==
  /\ \A L \in Labels, bb \in KnownBlocks :
       L \in taints(lastUsagesByBB, bb)
         <=> (L \in DOMAIN lastUsages /\ lastUsages[L] = bb)
  /\ \A bb1 \in KnownBlocks, bb2 \in KnownBlocks :
       bb1 # bb2 =>
         taints(lastUsagesByBB, bb1) \cap taints(lastUsagesByBB, bb2) = {}

\* C1 witness: two labels last used in the same block, after another block
\* has lost every label it had.
C1_Witness ==
  \E bb \in KnownBlocks, old \in DOMAIN lastUsagesByBB :
    /\ old # bb
    /\ lastUsagesByBB[old] = {}
    /\ Cardinality(taints(lastUsagesByBB, bb)) >= 2

AllIdle == \A t \in Threads : pc[t] = "idle"

\* C2: with threads calling setLastUsage concurrently, no reader observes a
\* label recorded in lastUsages as last used in bb but missing from the set of
\* bb, or in the sets of two blocks, or in the set of a block other than
\* lastUsages[L]; and once all calls have completed the maps are inverses.
C2_DualUpdateAtomic ==
  /\ \A L \in DOMAIN lastUsages : L \in taints(lastUsagesByBB, lastUsages[L])
  /\ \A L \in Labels, bb \in KnownBlocks :
       L \in taints(lastUsagesByBB, bb) =>
         /\ L \in DOMAIN lastUsages /\ lastUsages[L] = bb
         /\ \A bb2 \in KnownBlocks :
              L \in taints(lastUsagesByBB, bb2) => bb2 = bb
  /\ AllIdle =>
       \A L \in Labels, bb \in KnownBlocks :
         L \in taints(lastUsagesByBB, bb)
           <=> (L \in DOMAIN lastUsages /\ lastUsages[L] = bb)

\* C8: a setLastUsage(L, bbB) that follows a setLastUsage(L, bbA) with
\* bbA # bbB, whatever calls for other labels came before or in between,
\* leaves getLastUsage(L) = bbB, L out of taints(bbA) and L in taints(bbB).
C8_SecondUsageReplacesFirst ==
  [][\A L \in Labels :
       (usageHist[L] # <<>> /\ usageHist'[L] # usageHist[L]) =>
         LET bbA == usageHist[L][1]
             bbB == usageHist'[L][1]
         IN /\ getLastUsage(lastUsages', L) = bbB
            /\ L \notin taints(lastUsagesByBB', bbA)
            /\ L \in taints(lastUsagesByBB', bbB)]_vars

\* C8 witness: one label, alone recorded so far, moved from a block bbA to a
\* BasicBlockEntry bbB.
C8_Witness ==
  \E L \in Labels, bbA \in DOMAIN lastUsagesByBB :
    /\ \A M \in Labels \ {L} : usageHist[M] = <<>>
    /\ usageHist[L] # <<>>
    /\ usageHist[L][1] # bbA
    /\ usageHist[L][1] # nullptr
    /\ getLastUsage(lastUsages, L) = usageHist[L][1]
    /\ L \notin taints(lastUsagesByBB, bbA)

\* C9 as stated: with consumption reported as setLastUsage(L, currentBB()),
\* getLastUsage(L) is the recorded block for every label consumed at least
\* once, and is none only for a label that has never been consumed.
C9_NoneOnlyIfNeverConsumed ==
  \A L \in Labels :
    /\ usageHist[L] # <<>> => getLastUsage(lastUsages, L) = usageHist[L][1]
    /\ getLastUsage(lastUsages, L) = nullptr => usageHist[L] = <<>>

\* C9 as amended: getLastUsage(L) is the value currentBB() had when L was
\* last consumed; it is none exactly when L has never been consumed or was
\* last consumed while currentBB() was none.
C9_LastUsageIsCurrentBBAtConsumption ==
  \A L \in Labels :
    /\ usageHist[L] # <<>> => getLastUsage(lastUsages, L) = usageHist[L][1]
    /\ getLastUsage(lastUsages, L) = nullptr
         <=> (usageHist[L] = <<>> \/ usageHist[L] = <<nullptr>>)
    /\ getLastUsage(lastUsages, L) # nullptr =>
         events[getLastUsage(lastUsages, L)].kind = "BasicBlockEntry"

\* C9 witness: a label consumed in a block and later consumed again right
\* after a call, so that it has been consumed and getLastUsage is none.
C9_Witness ==
  \E L \in Labels, bb \in DOMAIN lastUsagesByBB :
    /\ bb # nullptr
    /\ usageHist[L] = <<nullptr>>
    /\ L \notin lastUsagesByBB[bb]
    /\ \A M \in Labels \ {L} : usageHist[M] = <<>>
    /\ getLastUsage(lastUsages, L) = nullptr

\* C10: eventIndex values are strictly increasing in construction order and
\* globally unique; numTraceEvents issues each value once, is incremented
\* once per constructed event and never decreases, also when two threads
\* construct events concurrently.
C10_EventIndexUnique ==
  /\ \A i \in 1..Len(events), j \in 1..Len(events) :
       i < j => events[i].eventIndex < events[j].eventIndex
  /\ \A i \in 1..Len(events) : events[i].eventIndex < numTraceEvents
  /\ AllIdle => numTraceEvents = Len(events)

\* C11: getStack(threadId) and currentStack() return, creating it if absent,
\* the stack stored under the thread identity used as lookup key (the
\* threadId argument for getStack, the calling thread for currentStack): a
\* call creates at most one stack, only under that key, and leaves the stacks
\* already present intact.
C11_LookupUsesItsKey ==
  lastOp.op \in {"getStack", "currentStack"} =>
    /\ lastOp.ret = lastOp.arg
    /\ lastOp.arg \in DOMAIN eventStacks
    /\ lastOp.set \subseteq {lastOp.arg}
    /\ lastOp.ok

QueryOps == {"lastEvent", "secondToLastEvent", "currentBB", "getLastUsage",
             "taints"}

\* C12: lastEvent() is the head of the calling thread's stack, none if the
\* thread has no stack or its stack has no head; secondToLastEvent() is
\* lastEvent().previous, none if lastEvent() is none; no query creates a
\* stack or changes any stack or map.
C12_QueryResult ==
  LET t == lastOp.thread
      head == IF t \in DOMAIN eventStacks THEN eventStacks[t].head ELSE nullptr
  IN /\ lastOp.op = "lastEvent" => lastOp.ret = head
     /\ lastOp.op = "secondToLastEvent" =>
          lastOp.ret = IF head = nullptr THEN nullptr ELSE events[head].previous

C12_QueryFrame ==
  lastOp'.op \in QueryOps =>
    UNCHANGED <<events, eventStacks, lastUsages, lastUsagesByBB>>

C12_QueriesReadOnly == [](C12_QueryResult) /\ [][C12_QueryFrame]_vars

\* C12 witness: secondToLastEvent() answered from a head that is not the
\* event pushed last, while the other thread has no stack and labels are
\* recorded.
C12_Witness ==
  /\ lastOp.op = "secondToLastEvent"
  /\ lastOp.thread \in DOMAIN eventStacks
  /\ pops[lastOp.thread] > 0
  /\ peek(eventStacks[lastOp.thread]) # nullptr
  /\ lastOp.ret = nullptr
  /\ DOMAIN eventStacks # Threads
  /\ DOMAIN lastUsages # {}

\* C13: setLastUsage is idempotent: from every reachable state of the maps and
\* for every (label, bb), a second setLastUsage(label, bb) right after the
\* first leaves getLastUsage of every label and taints of every block as the
\* first call left them.
C13_SetLastUsageIdempotent ==
  \A label \in Labels, bb \in BlockRefs :
    LET r1 == setLastUsage(lastUsages, lastUsagesByBB, label, bb)
        r2 == setLastUsage(r1.lastUsages, r1.lastUsagesByBB, label, bb)
    IN /\ \A M \in Labels :
            getLastUsage(r2.lastUsages, M) = getLastUsage(r1.lastUsages, M)
       /\ \A b \in KnownBlocks \cup DOMAIN r2.lastUsagesByBB :
            taints(r2.lastUsagesByBB, b) = taints(r1.lastUsagesByBB, b)

\* C13 witness: a label recorded in a BasicBlockEntry together with another
\* label, where calling setLastUsage again with the same pair changes nothing.
C13_Witness ==
  \E L \in Labels :
    /\ usageHist[L] # <<>>
    /\ usageHist[L][1] # nullptr
    /\ taints(lastUsagesByBB, usageHist[L][1]) = Labels
    /\ setLastUsage(lastUsages, lastUsagesByBB, L, usageHist[L][1])
         = [lastUsages |-> lastUsages, lastUsagesByBB |-> lastUsagesByBB]

\* C20: setLastUsage(L, bb) affects only label L: getLastUsage of every other
\* label and every other label's membership in every block's set are
\* unchanged, L's membership changes only in the set of its previous block
\* and in the set of bb, and no event stack changes.
C20_UsageStep ==
  \A L \in Labels :
    usageHist'[L] # usageHist[L] =>
      LET bb == usageHist'[L][1]
          blocks == BlockRefs \cup DOMAIN lastUsagesByBB
                      \cup DOMAIN lastUsagesByBB'
          prior == IF L \in DOMAIN lastUsages THEN {lastUsages[L]} ELSE {}
      IN /\ \A M \in Labels \ {L} :
              /\ getLastUsage(lastUsages', M) = getLastUsage(lastUsages, M)
              /\ \A b \in blocks :
                   (M \in taints(lastUsagesByBB', b))
                     <=> (M \in taints(lastUsagesByBB, b))
         /\ \A b \in blocks \ (prior \cup {bb}) :
              (L \in taints(lastUsagesByBB', b))
                <=> (L \in taints(lastUsagesByBB, b))
         /\ L \in taints(lastUsagesByBB', bb)
         /\ UNCHANGED <<events, eventStacks>>

C20_SetLastUsageFrame == [][C20_UsageStep]_vars

\* C20 witness: some label has left a block whose set is now empty while the
\* other labels are recorded in a block that is not the first label's.
C20_Witness ==
  \E L \in Labels, old \in DOMAIN lastUsagesByBB :
    /\ lastUsagesByBB[old] = {}
    /\ Labels \subseteq DOMAIN lastUsages
    /\ \A M \in Labels \ {L} : lastUsages[M] # lastUsages[L]
    /\ lastUsages[L] # nullptr
    /\ eventStacks # EmptyMap

\* The lexicographic order on strings by content, stated without strcmp:
\* s precedes t when they agree up to some position where s has the smaller
\* character (the end of a string counts as character 0).
StrLess(s, t) ==
  \E i \in 1..(Len(s) + 1) :
    /\ \A j \in 1..(i - 1) : CharAt(s, j) = CharAt(t, j)
    /\ CharAt(s, i) < CharAt(t, i)

\* The lexicographic order on (function name by content, index, entryCount).
LexLess(a, b) ==
  LET sa == StringAt[a.fname]
      sb == StringAt[b.fname]
  IN \/ StrLess(sa, sb)
     \/ sa = sb /\ a.index < b.index
     \/ sa = sb /\ a.index = b.index /\ a.entryCount < b.entryCount

Incomparable(a, b) == ~BasicBlockTrace_lt(a, b) /\ ~BasicBlockTrace_lt(b, a)

\* C14: operator< is a strict weak order (irreflexive, asymmetric, transitive,
\* incomparability transitive) and is the lexicographic order on (function
\* name by content, block index, entry count): (f,0,0) < (f,0,1) < (f,1,0),
\* and every trace of function "a" precedes every trace of function "b".
C14_StrictWeakOrder ==
  \A i \in DOMAIN cmp :
    LET a == cmp[i].a
        b == cmp[i].b
    IN /\ cmp[i].lt <=> LexLess(a, b)
       /\ cmp[i].gt <=> LexLess(b, a)
       /\ a = b => ~cmp[i].lt
       /\ ~(cmp[i].lt /\ cmp[i].gt)
       /\ \A c \in BasicBlockTraces :
            /\ cmp[i].lt /\ BasicBlockTrace_lt(b, c) => BasicBlockTrace_lt(a, c)
            /\ ~cmp[i].lt /\ ~cmp[i].gt /\ Incomparable(b, c)
                 => Incomparable(a, c)
       /\ StringAt[a.fname] = StringAt[b.fname]
            /\ a.index = 0 /\ a.entryCount = 0
            /\ b.index = 0 /\ b.entryCount = 1 => cmp[i].lt
       /\ StringAt[a.fname] = StringAt[b.fname]
            /\ a.index = 0 /\ a.entryCount = 1
            /\ b.index = 1 /\ b.entryCount = 0 => cmp[i].lt
       /\ StringAt[a.fname] = <<97>> /\ StringAt[b.fname] = <<98>>
            => cmp[i].lt /\ ~cmp[i].gt

\* C14 witness: (f,0,1) was compared with (f,1,0) and found smaller.
C14_Witness ==
  \E i \in DOMAIN cmp :
    /\ StringAt[cmp[i].a.fname] = <<102>>
    /\ cmp[i].a.fname = cmp[i].b.fname
    /\ cmp[i].a.index = 0 /\ cmp[i].a.entryCount = 1
    /\ cmp[i].b.index = 1 /\ cmp[i].b.entryCount = 0
    /\ cmp[i].lt /\ ~cmp[i].gt

\* C15 as stated: a == b exactly when the names (by content), indices and
\* entry counts match, which is exactly when neither a < b nor b < a, also
\* when the same name is held by two distinct string objects.
C15_EqualIffUnordered ==
  \A i \in DOMAIN cmp :
    /\ cmp[i].eq <=> /\ StringAt[cmp[i].a.fname] = StringAt[cmp[i].b.fname]
                     /\ cmp[i].a.index = cmp[i].b.index
                     /\ cmp[i].a.entryCount = cmp[i].b.entryCount
    /\ cmp[i].eq <=> (~cmp[i].lt /\ ~cmp[i].gt)

\* C15 amended: a == b exactly when fname is the same string object and
\* index and entryCount match; values that differ only in entryCount are
\* unequal and ordered by entryCount; a == b exactly when fname is the same
\* object and neither a < b nor b < a, so two values whose equal names are
\* held by distinct string objects are unequal although neither is less.
C15_EqualByIdentity ==
  \A i \in DOMAIN cmp :
    LET a == cmp[i].a
        b == cmp[i].b
    IN /\ cmp[i].eq <=> /\ a.fname = b.fname
                        /\ a.index = b.index
                        /\ a.entryCount = b.entryCount
       /\ a.fname = b.fname /\ a.index = b.index
            /\ a.entryCount # b.entryCount
            => /\ ~cmp[i].eq
               /\ cmp[i].lt <=> a.entryCount < b.entryCount
               /\ cmp[i].gt <=> b.entryCount < a.entryCount
       /\ cmp[i].eq <=> (a.fname = b.fname /\ ~cmp[i].lt /\ ~cmp[i].gt)
       /\ a.fname # b.fname /\ StringAt[a.fname] = StringAt[b.fname]
            /\ a.index = b.index /\ a.entryCount = b.entryCount
            => ~cmp[i].eq /\ ~cmp[i].lt /\ ~cmp[i].gt

\* C15 witness: two values with the same name in distinct string objects and
\* equal index and entryCount were compared: unequal, neither less.
C15_Witness ==
  \E i \in DOMAIN cmp :
    /\ cmp[i].a.fname # cmp[i].b.fname
    /\ StringAt[cmp[i].a.fname] = StringAt[cmp[i].b.fname]
    /\ cmp[i].a.index = cmp[i].b.index
    /\ cmp[i].a.entryCount = cmp[i].b.entryCount
    /\ ~cmp[i].eq /\ ~cmp[i].lt /\ ~cmp[i].gt

Range(seq) == {seq[i] : i \in DOMAIN seq}

\* following previous from event for at most fuel links ends at none
RECURSIVE EndsWithin(_, _, _)
EndsWithin(evs, event, fuel) ==
  \/ event = nullptr
  \/ /\ fuel > 0
     /\ event \in DOMAIN evs
     /\ EndsWithin(evs, evs[event].previous, fuel - 1)

\* C16: the previous chain is a cycle-free singly-linked list confined to one
\* thread: the head of a stack is none or an event of that stack's
\* eventHistory, the previous of every event of an eventHistory is none or an
\* event at a strictly smaller position of the same eventHistory, and from
\* the head none is reached within as many links as the history is long.
C16_ChainAcyclicPerThread ==
  \A t \in DOMAIN eventStacks :
    LET h == eventStacks[t].eventHistory
    IN /\ peek(eventStacks[t]) \in {nullptr} \cup Range(h)
       /\ \A i \in DOMAIN h :
            \/ events[h[i]].previous = nullptr
            \/ \E j \in 1..(i - 1) : h[j] = events[h[i]].previous
       /\ EndsWithin(events, peek(eventStacks[t]), Len(h))

\* C16 witness: two threads recorded events in turn, and the head of one
\* stack links back over the other thread's event to its own earlier event.
C16_Witness ==
  \E t \in DOMAIN eventStacks, u \in DOMAIN eventStacks :
    /\ t # u
    /\ peek(eventStacks[t]) # nullptr
    /\ events[peek(eventStacks[t])].previous # nullptr
    /\ \E e \in Range(eventStacks[u].eventHistory) :
         /\ events[peek(eventStacks[t])].previous < e
         /\ e < peek(eventStacks[t])

\* C17: recording an event or popping on one thread's stack changes only that
\* thread's stack: a step leaves the head and the eventHistory of every
\* thread that neither pushed nor popped in it, and the events of that
\* history, unchanged; a push by a thread appends exactly the event created
\* in that step to its own eventHistory; so every eventHistory holds exactly
\* the events its thread pushed, in push order.
C17_OtherStacksStep ==
  \A u \in Threads :
    /\ pushes'[u] = pushes[u] /\ pops'[u] = pops[u] =>
         /\ u \in DOMAIN eventStacks =>
              /\ u \in DOMAIN eventStacks'
              /\ eventStacks'[u] = eventStacks[u]
              /\ \A e \in Range(eventStacks[u].eventHistory) :
                   events'[e] = events[e]
         /\ u \notin DOMAIN eventStacks /\ u \in DOMAIN eventStacks' =>
              eventStacks'[u] = TraceEventStack
    /\ pushes'[u] # pushes[u] =>
         /\ Len(events') = Len(events) + 1
         /\ eventStacks'[u].eventHistory =
              Append(IF u \in DOMAIN eventStacks
                     THEN eventStacks[u].eventHistory ELSE <<>>,
                     Len(events'))

C17_HistoriesPartitionEvents ==
  /\ \A t \in DOMAIN eventStacks :
       LET h == eventStacks[t].eventHistory
       IN /\ Len(h) = pushes[t]
          /\ \A i \in DOMAIN h, j \in DOMAIN h : i < j => h[i] < h[j]
          /\ \A u \in DOMAIN eventStacks \ {t} :
               Range(h) \cap Range(eventStacks[u].eventHistory) = {}
  /\ UNION {Range(eventStacks[t].eventHistory) : t \in DOMAIN eventStacks}
       = DOMAIN events

C17_StacksArePerThread ==
  [](C17_HistoriesPartitionEvents) /\ [][C17_OtherStacksStep]_vars

\* C17 witness: one thread pushed twice around a push and a pop of the other
\* thread, and each eventHistory holds its own thread's events.
C17_Witness ==
  \E t \in DOMAIN eventStacks, u \in DOMAIN eventStacks :
    /\ t # u
    /\ eventStacks[t].eventHistory = <<1, 3>>
    /\ eventStacks[u].eventHistory = <<2>>
    /\ pops[u] = 1
    /\ peek(eventStacks[u]) = nullptr
    /\ peek(eventStacks[t]) = 3

\* C18: pop() on a stack with no head returns false and leaves head and
\* eventHistory unchanged; pop() on a stack with a head returns true and sets
\* head to the old head's previous, which shortens the chain from the head by
\* one, so repeated pops reach the no-head state and stay there.
C18_PopStep ==
  lastOp'.op = "pop" =>
    LET t == lastOp'.thread
        old == IF t \in DOMAIN eventStacks THEN eventStacks[t]
               ELSE TraceEventStack
    IN /\ lastOp'.ok <=> peek(old) # nullptr
       /\ eventStacks'[t].eventHistory = old.eventHistory
       /\ peek(old) = nullptr => peek(eventStacks'[t]) = nullptr
       /\ peek(old) # nullptr =>
            /\ peek(eventStacks'[t]) = events[peek(old)].previous
            /\ Len(Chain(events', peek(eventStacks'[t])))
                 = Len(Chain(events, peek(old))) - 1

C18_PopTotal == [][C18_PopStep]_vars

\* C18 witness: after two pops that returned true the stack has no head, and
\* a further pop has returned false.
C18_Witness ==
  /\ lastOp.op = "pop"
  /\ ~lastOp.ok
  /\ lastOp.before = nullptr
  /\ lastOp.thread \in DOMAIN eventStacks
  /\ pops[lastOp.thread] = 2
  /\ peek(eventStacks[lastOp.thread]) = nullptr
  /\ Len(eventStacks[lastOp.thread].eventHistory) = 2

\* C19: the stack is LIFO over the current view: in every reachable state,
\* push(e) followed at once by pop() returns true and restores peek() while
\* eventHistory is longer by e, and the number of events reachable from the
\* head through previous equals the pushes minus the pops that returned true.
C19_Lifo ==
  \A t \in Threads :
    LET stack == currentStack(eventStacks, t)[t]
        e == Len(events) + 1
    IN /\ Len(Chain(events, peek(stack))) = pushes[t] - pops[t]
       /\ \A ev \in NewEvents(t, Fnames) :
            LET r == push(Append(events, ev), stack, e)
                q == pop(r.events, r.stack)
            IN /\ peek(r.stack) = e
               /\ q.ret
               /\ peek(q.stack) = peek(stack)
               /\ q.stack.eventHistory = Append(stack.eventHistory, e)

\* C19 witness: a push, a pop and a second push have left one event reachable
\* from the head, and a further push and pop would restore that head.
C19_Witness ==
  \E t \in DOMAIN eventStacks :
    /\ pushes[t] = 2
    /\ pops[t] = 1
    /\ Len(eventStacks[t].eventHistory) = 2
    /\ peek(eventStacks[t]) = eventStacks[t].eventHistory[2]
    /\ Chain(events, peek(eventStacks[t])) = <<peek(eventStacks[t])>>

====
